---------------------------- MODULE Spec2Model ----------------------------
(***************************************************************************)
(* Model of the RPC bridge client McpUnity                                 *)
(* (Server/src/unity/mcpUnity.ts): the connection handle `ws`, the table   *)
(* `pendingRequests`, the timers armed with setTimeout, the promises       *)
(* returned by connect(), and the public operations start, stop and        *)
(* sendRequest.  Every handler runs to completion (single-threaded event   *)
(* loop), so each handler is one action.                                    *)
(***************************************************************************)
EXTENDS Integers, Sequences, FiniteSets, TLC

(* ---------------------------- bounds ---------------------------------- *)
\* number of start()/sendRequest() invocations observed
MaxCalls == 2
\* number of WebSocket objects the client may create
MaxSockets == 2
\* number of distinct correlation ids a caller supplies itself
MaxCallerIds == 1

Calls == 1..MaxCalls
Sockets == 1..MaxSockets
CallerIds == 1..MaxCallerIds

\* uuidv4(): a fresh value, distinct from every other id (line 289)
uuidv4(c) == MaxCallerIds + c

\* an id that no request of the client ever carries
UnknownId == MaxCallerIds + MaxCalls + 1

\* every id that may key the pending table or appear in a frame;
\* 0 stands for a missing / empty (falsy) id
Ids == 1..UnknownId

\* payloads a response frame may carry ("undefined" = field absent)
Results == {"undefined", "pong"}
ErrorPayloads == {[message |-> "", details |-> "undefined"],
                  [message |-> "bad op", details |-> "d1"]}

\* inbound frames: unparseable text, success frames, failure frames
Frames ==
    {[kind |-> "garbage", id |-> 0, result |-> "undefined",
      message |-> "", details |-> "undefined"]}
    \cup {[kind |-> "result", id |-> i, result |-> r,
           message |-> "", details |-> "undefined"] : i \in {0} \cup Ids, r \in Results}
    \cup {[kind |-> "error", id |-> i, result |-> "undefined",
           message |-> e.message, details |-> e.details] : i \in {0} \cup Ids, e \in ErrorPayloads}

VARIABLES
    ws,               \* this.ws: the handle held by the client, 0 = null
    readyState,       \* readyState of every WebSocket created so far
    handlers,         \* onopen/onmessage/onerror/onclose registered on a socket
    connPromise,      \* promise created by connect() for each attempt
    timerQ,           \* armed timers, in the order they were armed
    pendingRequests,  \* this.pendingRequests: id -> owning call, 0 = no entry
    calls,            \* the start()/sendRequest() invocations
    respSeen,         \* history: a response with the call's id was delivered
    dropped,          \* history: the last step delivered a response that found
                      \* no entry while a request was pending
    late,             \* history: the last step was an event of a socket the
                      \* client no longer holds
    unparsed,         \* history: the last step delivered a frame that could not
                      \* be parsed while a request was pending
    env,              \* process.env / platform store read by the constructor
    port              \* this.port

progVars == <<ws, readyState, handlers, connPromise, timerQ, pendingRequests, calls>>
\* a step that delivers no frame
NoFrame == respSeen' = respSeen /\ dropped' = FALSE /\ late' = FALSE /\ unparsed' = FALSE
vars == <<ws, readyState, handlers, connPromise, timerQ, pendingRequests, calls,
          respSeen, dropped, late, unparsed, env, port>>

(* --------------------------- outcomes --------------------------------- *)
Unsettled == [st |-> "pending", type |-> "", msg |-> "", val |-> "undefined"]
Resolved(v) == [st |-> "resolved", type |-> "", msg |-> "", val |-> v]
\* new McpUnityError(type, message, details)
McpUnityError(type, message, details) ==
    [st |-> "rejected", type |-> type, msg |-> message, val |-> details]

\* att: the attempt whose promise the suspended call awaits (0 = none);
\* sentOn / wroteTo: the socket the request frame was written to and its
\* readyState at that moment
IdleCall == [kind |-> "none", pc |-> "idle", reqId |-> 0, att |-> 0,
             sentOn |-> 0, wroteTo |-> "", outcome |-> Unsettled]

\* the program state as one value, so that a handler is a composition of
\* the functions it calls
Cur == [ws |-> ws, readyState |-> readyState, handlers |-> handlers,
        connPromise |-> connPromise, timerQ |-> timerQ,
        pendingRequests |-> pendingRequests, calls |-> calls, port |-> port]

Install(s) ==
    /\ ws' = s.ws
    /\ readyState' = s.readyState
    /\ handlers' = s.handlers
    /\ connPromise' = s.connPromise
    /\ timerQ' = s.timerQ
    /\ pendingRequests' = s.pendingRequests
    /\ calls' = s.calls
    /\ port' = s.port
    /\ env' = env

ConnTimer(h) == [kind |-> "conn", n |-> h]
ReqTimer(c) == [kind |-> "req", n |-> c]

\* clearTimeout(t)
clearTimeout(q, t) == SelectSeq(q, LAMBDA x : x # t)

Armed(q, t) == \E i \in 1..Len(q) : q[i] = t

\* resolve()/reject() of a call's promise: a settled promise stays as it is
Settle(s, c, out) ==
    IF s.calls[c].outcome.st = "pending"
    THEN [s EXCEPT !.calls[c].outcome = out, !.calls[c].pc = "done"]
    ELSE s


(* ----------------------- the client's methods ------------------------- *)
\* isConnected that only looks at the handle, not at its readyState
isConnected_HandleOnly(s) == s.ws # 0

\* get isConnected(): a handle exists and its readyState is exactly OPEN
isConnected(s) == s.ws # 0 /\ s.readyState[s.ws] = "OPEN"

\* the calls whose entry is in the pending table
Owners(s) == {s.pendingRequests[i] : i \in Ids} \ {0}

\* disconnect() that rejects and deletes the entries but leaves their
\* timers armed
disconnect_KeepsTimers(s) ==
    IF s.ws = 0 THEN s
    ELSE LET h == s.ws
             owners == Owners(s)
         IN [s EXCEPT
               !.handlers[h] = FALSE,
               !.readyState[h] = "CLOSED",
               !.ws = 0,
               !.calls = [c \in Calls |->
                            IF c \in owners /\ @[c].outcome.st = "pending"
                            THEN [@[c] EXCEPT
                                    !.outcome = McpUnityError("CONNECTION", "Connection closed", "undefined"),
                                    !.pc = "done"]
                            ELSE @[c]],
               !.pendingRequests = [i \in Ids |-> 0]]

\* disconnect() that closes the handle but leaves the pending table alone
disconnect_NoDrain(s) ==
    IF s.ws = 0 THEN s
    ELSE [s EXCEPT !.handlers[s.ws] = FALSE,
                   !.readyState[s.ws] = "CLOSED",
                   !.ws = 0]

\* disconnect() that leaves the callbacks registered on the handle it closes
disconnect_KeepsCallbacks(s) ==
    IF s.ws = 0 THEN s
    ELSE LET h == s.ws
             owners == Owners(s)
         IN [s EXCEPT
               !.readyState[h] = "CLOSED",
               !.ws = 0,
               !.timerQ = SelectSeq(@, LAMBDA t : ~(t.kind = "req" /\ t.n \in owners)),
               !.calls = [c \in Calls |->
                            IF c \in owners /\ @[c].outcome.st = "pending"
                            THEN [@[c] EXCEPT
                                    !.outcome = McpUnityError("CONNECTION", "Connection closed", "undefined"),
                                    !.pc = "done"]
                            ELSE @[c]],
               !.pendingRequests = [i \in Ids |-> 0]]

\* disconnect(): unregister the callbacks, terminate() a CONNECTING handle
\* or close() an OPEN one, null the handle, then clear the timer of, reject
\* and delete every pending entry.  A no-op when no handle is held.
\* terminate()/close() take the socket out of CONNECTING/OPEN at once (a
\* socket already CLOSING is left to finish); the client has dropped its
\* only reference, so the rest of the closing handshake is not observable
\* and the socket is recorded as CLOSED.
disconnect(s) ==
    IF s.ws = 0 THEN s
    ELSE LET h == s.ws
             owners == Owners(s)
         IN [s EXCEPT
               !.handlers[h] = FALSE,
               !.readyState[h] = "CLOSED",
               !.ws = 0,
               !.timerQ = SelectSeq(@, LAMBDA t : ~(t.kind = "req" /\ t.n \in owners)),
               !.calls = [c \in Calls |->
                            IF c \in owners /\ @[c].outcome.st = "pending"
                            THEN [@[c] EXCEPT
                                    !.outcome = McpUnityError("CONNECTION", "Connection closed", "undefined"),
                                    !.pc = "done"]
                            ELSE @[c]],
               !.pendingRequests = [i \in Ids |-> 0]]

\* new WebSocket(...): the next socket object not yet created
HasFree(s) == \E h \in Sockets : s.readyState[h] = "NONE"
FreeSocket(s) == CHOOSE h \in Sockets :
                    /\ s.readyState[h] = "NONE"
                    /\ \A k \in Sockets : k < h => s.readyState[k] # "NONE"

\* connect() that does not tear down the handle held before it creates
\* the new socket
connect_NoTeardown(s) ==
    IF isConnected(s) THEN s
    ELSE LET h == FreeSocket(s)
         IN [s EXCEPT
               !.ws = h,
               !.readyState[h] = "CONNECTING",
               !.handlers[h] = TRUE,
               !.connPromise[h] = "pending",
               !.timerQ = Append(@, ConnTimer(h))]

\* connect(): returns at once when connected; otherwise tears down the
\* handle held, creates a socket (CONNECTING), arms the connection timer and
\* registers the four callbacks.  The promise it returns is connPromise[ws].
connect(s) ==
    IF isConnected(s) THEN s
    ELSE LET d == disconnect(s)
             h == FreeSocket(d)
         IN [d EXCEPT
               !.ws = h,
               !.readyState[h] = "CONNECTING",
               !.handlers[h] = TRUE,
               !.connPromise[h] = "pending",
               !.timerQ = Append(@, ConnTimer(h))]

\* reconnect(): disconnect(), then connect() whose promise nobody awaits
reconnect(s) == connect(disconnect(s))

\* resolve()/reject() of the promise of the attempt on socket h
SettleAttempt(s, h, how) ==
    IF s.connPromise[h] = "pending" THEN [s EXCEPT !.connPromise[h] = how] ELSE s

\* ws.onopen
onopen(s, h) ==
    SettleAttempt([s EXCEPT !.timerQ = clearTimeout(@, ConnTimer(h))], h, "resolved")

\* ws.onerror: reject the attempt, then disconnect()
onerror(s, h) ==
    disconnect(SettleAttempt([s EXCEPT !.timerQ = clearTimeout(@, ConnTimer(h))],
                             h, "failed"))

\* ws.onclose
onclose(s, h) == disconnect(s)

\* connectionTimeout callback that tears the handle down without
\* rejecting the attempt
connectionTimeout_NoReject(s, h) ==
    IF s.ws # 0 /\ s.readyState[s.ws] = "CONNECTING"
    THEN disconnect(s)
    ELSE s

\* the connectionTimeout callback of the attempt on socket h (already
\* removed from the timer queue): it looks at the handle held NOW
connectionTimeout(s, h) ==
    IF s.ws # 0 /\ s.readyState[s.ws] = "CONNECTING"
    THEN SettleAttempt(disconnect(s), h, "timeout")
    ELSE s

\* response.error.message || 'Unknown error'
ErrorMessage(m) == IF m = "" THEN "Unknown error" ELSE m

\* handleMessage that forgets to pass response.result to resolve()
handleMessage_DropsResult(s, f) ==
    IF f.kind = "garbage" THEN s
    ELSE IF f.id # 0 /\ s.pendingRequests[f.id] # 0
    THEN LET c == s.pendingRequests[f.id]
             s1 == [s EXCEPT !.timerQ = clearTimeout(@, ReqTimer(c)),
                             !.pendingRequests[f.id] = 0]
         IN IF f.kind = "error"
            THEN Settle(s1, c, McpUnityError("TOOL_EXECUTION", ErrorMessage(f.message), f.details))
            ELSE Settle(s1, c, Resolved("undefined"))
    ELSE s

\* handleMessage that does not look at response.error
handleMessage_IgnoresError(s, f) ==
    IF f.kind = "garbage" THEN s
    ELSE IF f.id # 0 /\ s.pendingRequests[f.id] # 0
    THEN LET c == s.pendingRequests[f.id]
             s1 == [s EXCEPT !.timerQ = clearTimeout(@, ReqTimer(c)),
                             !.pendingRequests[f.id] = 0]
         IN Settle(s1, c, Resolved(f.result))
    ELSE s

\* handleMessage that completes some pending entry when the id of the
\* response has none
handleMessage_AnyEntry(s, f) ==
    IF f.kind = "garbage" THEN s
    ELSE LET i == IF f.id # 0 /\ s.pendingRequests[f.id] # 0 THEN f.id
                  ELSE IF \E k \in Ids : s.pendingRequests[k] # 0
                       THEN CHOOSE k \in Ids : s.pendingRequests[k] # 0
                       ELSE 0
         IN IF i = 0 THEN s
            ELSE LET c == s.pendingRequests[i]
                     s1 == [s EXCEPT !.timerQ = clearTimeout(@, ReqTimer(c)),
                                     !.pendingRequests[i] = 0]
                 IN IF f.kind = "error"
                    THEN Settle(s1, c, McpUnityError("TOOL_EXECUTION", ErrorMessage(f.message), f.details))
                    ELSE Settle(s1, c, Resolved(f.result))

\* handleMessage that completes the oldest pending request with whatever
\* response arrives for a pending id (matching by arrival order)
handleMessage_OldestEntry(s, f) ==
    IF f.kind = "garbage" THEN s
    ELSE IF f.id # 0 /\ s.pendingRequests[f.id] # 0
    THEN LET c == CHOOSE o \in Owners(s) : \A d \in Owners(s) : o <= d
             i == CHOOSE k \in Ids : s.pendingRequests[k] = c
             s1 == [s EXCEPT !.timerQ = clearTimeout(@, ReqTimer(c)),
                             !.pendingRequests[i] = 0]
         IN IF f.kind = "error"
            THEN Settle(s1, c, McpUnityError("TOOL_EXECUTION", ErrorMessage(f.message), f.details))
            ELSE Settle(s1, c, Resolved(f.result))
    ELSE s

\* handleMessage without the try/catch around JSON.parse: the error leaves
\* the 'message' callback and the transport closes the socket with an
\* error, as after a transport failure
handleMessage_ParseErrorEscapes(s, f) ==
    IF f.kind = "garbage" THEN disconnect(s)
    ELSE IF f.id # 0 /\ s.pendingRequests[f.id] # 0
    THEN LET c == s.pendingRequests[f.id]
             s1 == [s EXCEPT !.timerQ = clearTimeout(@, ReqTimer(c)),
                             !.pendingRequests[f.id] = 0]
         IN IF f.kind = "error"
            THEN Settle(s1, c, McpUnityError("TOOL_EXECUTION", ErrorMessage(f.message), f.details))
            ELSE Settle(s1, c, Resolved(f.result))
    ELSE s

\* handleMessage(data)
handleMessage(s, f) ==
    IF f.kind = "garbage" THEN s
    ELSE IF f.id # 0 /\ s.pendingRequests[f.id] # 0
    THEN LET c == s.pendingRequests[f.id]
             s1 == [s EXCEPT !.timerQ = clearTimeout(@, ReqTimer(c)),
                             !.pendingRequests[f.id] = 0]
         IN IF f.kind = "error"
            THEN Settle(s1, c, McpUnityError("TOOL_EXECUTION", ErrorMessage(f.message), f.details))
            ELSE Settle(s1, c, Resolved(f.result))
    ELSE s

\* sendRequest, from the id assignment on (lines 288-327); sendThrows says
\* whether JSON.stringify / ws.send throws
sendBody(s, c, sendThrows) ==
    IF s.ws = 0 \/ ~isConnected(s)
    THEN Settle(s, c, McpUnityError("CONNECTION", "Not connected to Unity", "undefined"))
    ELSE LET id == s.calls[c].reqId
             s1 == [s EXCEPT !.timerQ = Append(@, ReqTimer(c)),
                             !.pendingRequests[id] = c]
         IN IF sendThrows
            THEN Settle([s1 EXCEPT !.timerQ = clearTimeout(@, ReqTimer(c)),
                                   !.pendingRequests[id] = 0],
                        c, McpUnityError("CONNECTION", "Send failed", "undefined"))
            ELSE [s1 EXCEPT !.calls[c].pc = "sent",
                            !.calls[c].sentOn = s.ws,
                            !.calls[c].wroteTo = s.readyState[s.ws]]

\* the request timer callback of call c (already removed from the queue)
requestTimeout(s, c) ==
    LET id == s.calls[c].reqId
        s1 == IF s.pendingRequests[id] # 0
              THEN Settle([s EXCEPT !.pendingRequests[id] = 0], c,
                          McpUnityError("TIMEOUT", "Request timed out", "undefined"))
              ELSE s
    IN reconnect(s1)

\* the error with which `await this.connect()` throws
ConnectError(how) ==
    IF how = "timeout"
    THEN McpUnityError("CONNECTION", "Connection timeout", "undefined")
    ELSE McpUnityError("CONNECTION", "Connection failed", "undefined")

\* start() without the try/catch around `await this.connect()`
startAfterConnect_Rethrows(s, c) ==
    LET r == [s EXCEPT !.calls[c].att = 0]
    IN IF s.connPromise[s.calls[c].att] = "resolved"
       THEN Settle(r, c, Resolved("undefined"))
       ELSE Settle(r, c, ConnectError(s.connPromise[s.calls[c].att]))

\* start() after `await this.connect()`: the catch block disconnects and
\* start resolves either way
startAfterConnect(s, c) ==
    LET r == [s EXCEPT !.calls[c].att = 0]
    IN IF s.connPromise[s.calls[c].att] = "resolved"
       THEN Settle(r, c, Resolved("undefined"))
       ELSE Settle(disconnect(r), c, Resolved("undefined"))

\* sendRequest() after `await this.connect()`: a rejection propagates
sendAfterConnect(s, c, sendThrows) ==
    LET r == [s EXCEPT !.calls[c].att = 0]
    IN IF s.connPromise[s.calls[c].att] = "resolved"
       THEN sendBody(r, c, sendThrows)
       ELSE Settle(r, c, ConnectError(s.connPromise[s.calls[c].att]))

(* ------------------------- port resolution ---------------------------- *)
\* JavaScript values of the port: a number, NaN, or undefined (the field
\* before the constructor has assigned it)
Num(n) == [t |-> "number", n |-> n]
NaN == [t |-> "NaN", n |-> 0]
Undefined == [t |-> "undefined", n |-> 0]
\* an error that leaves the constructor: no client comes into being
Thrown == [t |-> "thrown", n |-> 0]

DEFAULT_PORT == 8090

\* strings are sequences of characters
DigitValue == ("0" :> 0) @@ ("1" :> 1) @@ ("2" :> 2) @@ ("3" :> 3) @@ ("4" :> 4)
              @@ ("5" :> 5) @@ ("6" :> 6) @@ ("7" :> 7) @@ ("8" :> 8) @@ ("9" :> 9)
IsDigit(ch) == ch \in DOMAIN DigitValue
IsSpace(ch) == ch \in {" ", "\n"}

RECURSIVE trimStart(_)
trimStart(s) == IF s # <<>> /\ IsSpace(Head(s)) THEN trimStart(Tail(s)) ELSE s

RECURSIVE trimEnd(_)
trimEnd(s) == IF s # <<>> /\ IsSpace(s[Len(s)])
              THEN trimEnd(SubSeq(s, 1, Len(s) - 1)) ELSE s

\* String.prototype.trim()
trim(s) == trimEnd(trimStart(s))

\* the value of the longest prefix of decimal digits of s, acc being the
\* value of the digits already read
RECURSIVE DigitPrefix(_, _)
DigitPrefix(s, acc) ==
    IF s # <<>> /\ IsDigit(Head(s))
    THEN DigitPrefix(Tail(s), 10 * acc + DigitValue[Head(s)])
    ELSE acc

\* parseInt(s, 10): leading white space is skipped, then an optional sign,
\* then the longest prefix of digits; NaN when there is no digit
parseInt(s) ==
    LET t == trimStart(s)
        signed == t # <<>> /\ Head(t) \in {"+", "-"}
        u == IF signed THEN Tail(t) ELSE t
    IN IF u = <<>> \/ ~IsDigit(Head(u)) THEN NaN
       ELSE Num((IF signed /\ Head(t) = "-" THEN -1 ELSE 1) * DigitPrefix(u, 0))

\* process.env.UNITY_PORT: not set, or a string
Unset == [set |-> FALSE, s |-> <<>>]
Str(s) == [set |-> TRUE, s |-> s]
Overrides == {Unset, Str(<<>>), Str(<<"9", "9", "9", "9">>),
              Str(<<"a", "b", "c">>), Str(<<" ", "1", "2", "a">>)}

\* execSync(command): throws (non-zero exit, no such command) or returns
\* the command's output
Throws == [throws |-> TRUE, out |-> <<>>]
Out(s) == [throws |-> FALSE, out |-> s]
ExecOutcomes == {Throws, Out(<<"\n">>), Out(<<"7", "7", "7", "7", "\n">>),
                 Out(<<"a", "b", "c", "\n">>)}

Platforms == {"win32", "darwin", "linux"}

\* the value UNITY_PORT under HKCU\Environment (<<>> = no such value)
RegistryValues == {<<>>, <<"7", "7", "7", "7">>}

\* what the constructor can observe of the process and the machine
Envs == [UNITY_PORT : Overrides, platform : Platforms, launchctl : ExecOutcomes,
         shell : ExecOutcomes, printenv : ExecOutcomes, registry : RegistryValues]

\* getUnityPortFromWindowsRegistry(): regKey.get() only starts the query;
\* its callback runs after the function has returned `result`, still ''
getUnityPortFromWindowsRegistry(e) == Out(<<>>)

\* getUnityPortFromMacOS(): launchctl first, then the shell profile; an
\* error of either command is caught and gives ''
getUnityPortFromMacOS(e) ==
    IF e.launchctl.throws THEN Out(<<>>)
    ELSE IF trim(e.launchctl.out) # <<>> THEN Out(trim(e.launchctl.out))
    ELSE IF e.shell.throws THEN Out(<<>>)
    ELSE Out(trim(e.shell.out))

\* getUnityPortFromUnixRegistry(): an error of printenv propagates
getUnityPortFromUnixRegistry(e) ==
    IF e.printenv.throws THEN Throws ELSE Out(trim(e.printenv.out))

\* getPlatformSpecificPort()
getPlatformSpecificPort(e) ==
    CASE e.platform = "win32" -> getUnityPortFromWindowsRegistry(e)
      [] e.platform = "darwin" -> getUnityPortFromMacOS(e)
      [] OTHER -> getUnityPortFromUnixRegistry(e)

\* determinePort that probes the platform store first and reads the
\* override only when the store gives nothing
determinePort_PlatformFirst(e) ==
    LET registryPort == getPlatformSpecificPort(e)
    IN IF ~registryPort.throws /\ registryPort.out # <<>>
       THEN parseInt(registryPort.out)
       ELSE IF e.UNITY_PORT.set /\ e.UNITY_PORT.s # <<>>
            THEN parseInt(e.UNITY_PORT.s)
            ELSE Num(DEFAULT_PORT)

\* determinePort without the try/catch around the probe: an error of the
\* probe leaves determinePort and the constructor
determinePort_NoCatch(e) ==
    IF e.UNITY_PORT.set /\ e.UNITY_PORT.s # <<>>
    THEN parseInt(e.UNITY_PORT.s)
    ELSE LET registryPort == getPlatformSpecificPort(e)
         IN IF registryPort.throws THEN Thrown
            ELSE IF registryPort.out # <<>>
                 THEN parseInt(registryPort.out)
                 ELSE Num(DEFAULT_PORT)

\* determinePort(): a non-empty override is parsed and returned without
\* probing the platform; else a non-empty platform value is parsed and
\* returned; else (nothing found, or the probe threw) the default
determinePort(e) ==
    IF e.UNITY_PORT.set /\ e.UNITY_PORT.s # <<>>
    THEN parseInt(e.UNITY_PORT.s)
    ELSE LET registryPort == getPlatformSpecificPort(e)
         IN IF ~registryPort.throws /\ registryPort.out # <<>>
            THEN parseInt(registryPort.out)
            ELSE Num(DEFAULT_PORT)

\* the environment in which the client of Init was constructed: an override
\* in the process environment, another value in the platform store
InitEnv == [UNITY_PORT |-> Str(<<"9", "9", "9", "9">>), platform |-> "darwin",
            launchctl |-> Out(<<"7", "7", "7", "7", "\n">>), shell |-> Throws,
            printenv |-> Throws, registry |-> <<>>]

(* ----------------------------- actions -------------------------------- *)
\* the fields of a client before any operation was called
FreshClient ==
    /\ ws = 0
    /\ readyState = [h \in Sockets |-> "NONE"]
    /\ handlers = [h \in Sockets |-> FALSE]
    /\ connPromise = [h \in Sockets |-> "none"]
    /\ timerQ = <<>>
    /\ pendingRequests = [i \in Ids |-> 0]
    /\ calls = [c \in Calls |-> IdleCall]
    /\ respSeen = [c \in Calls |-> FALSE]
    /\ dropped = FALSE
    /\ late = FALSE
    /\ unparsed = FALSE

\* a client constructed in the environment InitEnv
Init ==
    /\ FreshClient
    /\ env = InitEnv
    /\ port = determinePort(env)

\* the c-th invocation of the public API may start once the (c-1)-th has
NextCall(c) == calls[c].kind = "none" /\ (IF c = 1 THEN TRUE ELSE calls[c - 1].kind # "none")

\* the continuation of a call suspended at `await this.connect()` is queued
\* as a microtask when the promise settles.  The promise settles inside a
\* transport or timer callback, which the event loop enters with an empty
\* microtask queue, so the continuation runs before any other task: before
\* the next timer or transport event and before any further call of the
\* public API
Runnable(c) == calls[c].pc = "awaitConnect" /\ connPromise[calls[c].att] # "pending"
MicrotasksDone == \A c \in Calls : ~Runnable(c)

\* start(): connect() and await it
Start(c) ==
    /\ NextCall(c)
    /\ MicrotasksDone
    /\ (isConnected(Cur) \/ HasFree(Cur))
    /\ LET s0 == [Cur EXCEPT !.calls[c].kind = "start"]
           s1 == connect(s0)
       IN IF isConnected(Cur)
          THEN Install(Settle(s1, c, Resolved("undefined")))
          ELSE Install([s1 EXCEPT !.calls[c].pc = "awaitConnect", !.calls[c].att = s1.ws])
    /\ NoFrame

StartResume(c) ==
    /\ calls[c].kind = "start"
    /\ Runnable(c)
    /\ Install(startAfterConnect(Cur, c))
    /\ NoFrame

\* sendRequest(request): id = 0 when the caller supplies none; caller ids are
\* interchangeable names, so the k-th new one a caller uses is called k
SendRequest(c, id, sendThrows) ==
    /\ NextCall(c)
    /\ MicrotasksDone
    /\ (id > 1 => \E k \in Calls : calls[k].kind = "send" /\ calls[k].reqId = id - 1)
    /\ (isConnected(Cur) \/ HasFree(Cur))
    /\ LET s0 == [Cur EXCEPT !.calls[c].kind = "send",
                             !.calls[c].reqId = IF id # 0 THEN id ELSE uuidv4(c)]
       IN IF isConnected(Cur)
          THEN Install(sendBody(s0, c, sendThrows))
          ELSE /\ ~sendThrows
               /\ LET s1 == connect(s0)
                  IN Install([s1 EXCEPT !.calls[c].pc = "awaitConnect",
                                        !.calls[c].att = s1.ws])
    /\ NoFrame

SendResume(c, sendThrows) ==
    /\ calls[c].kind = "send"
    /\ Runnable(c)
    /\ Install(sendAfterConnect(Cur, c, sendThrows))
    /\ NoFrame

\* stop()
Stop ==
    /\ MicrotasksDone
    /\ Install(disconnect(Cur))
    /\ NoFrame

\* the transport reports the handshake complete
SocketOpen(h) ==
    /\ MicrotasksDone
    /\ readyState[h] = "CONNECTING"
    /\ LET s0 == [Cur EXCEPT !.readyState[h] = "OPEN"]
       IN Install(IF handlers[h] THEN onopen(s0, h) ELSE s0)
    /\ NoFrame

\* the transport fails (refused, reset, protocol error): 'error' is emitted
\* on a socket that is already CLOSING; a failed handshake emits 'close'
\* right after it, an established socket when it is closed
SocketError(h) ==
    /\ MicrotasksDone
    /\ readyState[h] \in {"CONNECTING", "OPEN"}
    /\ LET s0 == [Cur EXCEPT !.readyState[h] = "CLOSING"]
           s1 == IF handlers[h] THEN onerror(s0, h) ELSE s0
       IN IF readyState[h] = "CONNECTING"
          THEN LET s2 == [s1 EXCEPT !.readyState[h] = "CLOSED"]
               IN Install(IF s2.handlers[h] THEN onclose(s2, h) ELSE s2)
          ELSE Install(s1)
    /\ NoFrame

\* the peer starts the closing handshake
PeerClose(h) ==
    /\ MicrotasksDone
    /\ readyState[h] = "OPEN"
    /\ readyState' = [readyState EXCEPT ![h] = "CLOSING"]
    /\ UNCHANGED <<ws, handlers, connPromise, timerQ, pendingRequests, calls, port, env>>
    /\ NoFrame

\* the socket is closed: 'close' is emitted
SocketClosed(h) ==
    /\ MicrotasksDone
    /\ readyState[h] = "CLOSING"
    /\ LET s0 == [Cur EXCEPT !.readyState[h] = "CLOSED"]
       IN Install(IF handlers[h] THEN onclose(s0, h) ELSE s0)
    /\ NoFrame

\* the ids some sendRequest call has used so far
UsedIds == {calls[c].reqId : c \in {k \in Calls : calls[k].kind = "send"}}

\* a text frame arrives on an open socket; an id that no call has used yet
\* is represented by UnknownId
SocketMessage(h, f) ==
    /\ readyState[h] = "OPEN"
    /\ handlers[h]
    /\ late' = FALSE
    /\ MicrotasksDone
    /\ f.id \in {0, UnknownId} \cup UsedIds
    /\ unparsed' = (f.kind = "garbage" /\ Owners(Cur) # {})
    /\ dropped' = (/\ f.kind # "garbage"
                   /\ Owners(Cur) # {}
                   /\ (IF f.id = 0 THEN TRUE ELSE pendingRequests[f.id] = 0))
    /\ respSeen' = [c \in Calls |->
                      respSeen[c] \/ (/\ f.kind # "garbage"
                                      /\ calls[c].pc = "sent"
                                      /\ calls[c].reqId = f.id)]
    /\ Install(handleMessage(Cur, f))

\* the events the transport delivers to the callbacks of a socket
Events == {"open", "message", "error", "close"}

\* a socket the client created and no longer holds still delivers an event
\* (the 'error' and 'close' that follow terminate(), the 'close' that ends
\* the closing handshake, a frame received before it): the callback
\* registered for it, if any, runs
LateEvent(h) ==
    /\ MicrotasksDone
    /\ h # ws
    /\ readyState[h] # "NONE"
    /\ IF handlers[h]
       THEN \E ev \in Events :
               CASE ev = "open" -> Install(onopen(Cur, h))
                 [] ev = "error" -> Install(onerror(Cur, h))
                 [] ev = "close" -> Install(onclose(Cur, h))
                 [] OTHER -> \E f \in Frames : Install(handleMessage(Cur, f))
       ELSE Install(Cur)
    /\ respSeen' = respSeen
    /\ dropped' = FALSE
    /\ unparsed' = FALSE
    /\ late' = TRUE

\* every timer of the client has the same delay (REQUEST_TIMEOUT), so the
\* timers fire in the order they were armed
ConnTimerFires(h) ==
    /\ MicrotasksDone
    /\ timerQ # <<>>
    /\ Head(timerQ) = ConnTimer(h)
    /\ Install(connectionTimeout([Cur EXCEPT !.timerQ = Tail(@)], h))
    /\ NoFrame

ReqTimerFires(c) ==
    /\ MicrotasksDone
    /\ timerQ # <<>>
    /\ Head(timerQ) = ReqTimer(c)
    /\ HasFree(Cur)
    /\ Install(requestTimeout([Cur EXCEPT !.timerQ = Tail(@)], c))
    /\ NoFrame

Next ==
    \/ \E c \in Calls : Start(c)
    \/ \E c \in Calls : StartResume(c)
    \/ \E c \in Calls, id \in {0} \cup CallerIds, t \in BOOLEAN : SendRequest(c, id, t)
    \/ \E c \in Calls, t \in BOOLEAN : SendResume(c, t)
    \/ Stop
    \/ \E h \in Sockets : SocketOpen(h)
    \/ \E h \in Sockets : SocketError(h)
    \/ \E h \in Sockets : PeerClose(h)
    \/ \E h \in Sockets : SocketClosed(h)
    \/ \E h \in Sockets, f \in Frames : SocketMessage(h, f)
    \/ \E h \in Sockets : LateEvent(h)
    \/ \E h \in Sockets : ConnTimerFires(h)
    \/ \E c \in Calls : ReqTimerFires(c)

Spec == Init /\ [][Next]_vars

\* construction in any environment: the constructor assigns this.port
PortInit ==
    /\ FreshClient
    /\ env \in Envs
    /\ port = Undefined

\* new McpUnity(logger)
Construct ==
    /\ port = Undefined
    /\ port' = determinePort(env)
    /\ UNCHANGED <<ws, readyState, handlers, connPromise, timerQ, pendingRequests,
                   calls, respSeen, dropped, late, unparsed, env>>

\* the operations of the client do not read the environment, so they are
\* explored for the client constructed in InitEnv
PortNext ==
    \/ Construct
    \/ port # Undefined /\ env = InitEnv /\ Next

PortSpec == PortInit /\ [][PortNext]_vars

TypeOK ==
    /\ ws \in {0} \cup Sockets
    /\ readyState \in [Sockets -> {"NONE", "CONNECTING", "OPEN", "CLOSING", "CLOSED"}]
    /\ handlers \in [Sockets -> BOOLEAN]
    /\ connPromise \in [Sockets -> {"none", "pending", "resolved", "failed", "timeout"}]
    /\ pendingRequests \in [Ids -> {0} \cup Calls]
    /\ \A c \in Calls : calls[c].pc \in {"idle", "awaitConnect", "sent", "done"}
    /\ env \in Envs
    /\ port.t \in {"number", "NaN", "undefined"}


(* ------------------------------ claims -------------------------------- *)
\* a response frame that finds an entry in the pending table
Matches(f) == f.kind # "garbage" /\ f.id # 0 /\ pendingRequests[IF f.id = 0 THEN 1 ELSE f.id] # 0

\* C1: when a response frame without error field arrives with the id of a
\* request that is still pending (its entry is in the pending table; the
\* frame of that request was written to an OPEN socket), the call resolves
\* with exactly the frame's result, the entry is removed and the timer of
\* the request is cancelled.
C1_ResponseResolves ==
    [][\A h \in {k \in Sockets : readyState[k] = "OPEN"}, f \in Frames :
         (Matches(f) /\ f.kind = "result" /\ SocketMessage(h, f)) =>
            LET c == pendingRequests[f.id]
            IN /\ calls[c].wroteTo = "OPEN"
               /\ calls[c].outcome = Unsettled
               /\ calls'[c].outcome = Resolved(f.result)
               /\ pendingRequests'[f.id] = 0
               /\ ~Armed(timerQ', ReqTimer(c))]_vars

\* C1 witness: a sendRequest call has been resolved with the payload "pong"
C1_Witness ==
    \E c \in Calls : /\ calls[c].kind = "send"
                     /\ calls[c].wroteTo = "OPEN"
                     /\ calls[c].outcome = Resolved("pong")

\* what C2 says of a step that delivers a failure frame for a pending
\* request, given the message the error is expected to carry
C2_Step(f, message) ==
    LET c == pendingRequests[f.id]
    IN /\ calls'[c].outcome = McpUnityError("TOOL_EXECUTION", message, f.details)
       /\ pendingRequests' = [pendingRequests EXCEPT ![f.id] = 0]
       /\ timerQ' = clearTimeout(timerQ, ReqTimer(c))
       /\ ~Armed(timerQ', ReqTimer(c))
       /\ ws' = ws /\ readyState' = readyState /\ handlers' = handlers
       /\ isConnected(Cur)
       /\ \A d \in Calls \ {c} : calls'[d] = calls[d]

\* C2 as stated: a failure frame for a pending request rejects the call
\* with a ToolExecutionError carrying the frame's own error message and
\* details; the entry is removed, its timer cancelled, the connection stays
\* open and the other entries stay as they are.
C2_Original ==
    [][\A h \in {k \in Sockets : readyState[k] = "OPEN"}, f \in Frames :
         (Matches(f) /\ f.kind = "error" /\ SocketMessage(h, f)) =>
            C2_Step(f, f.message)]_vars

\* C2 amended: as C2, except that the error carries the frame's error
\* message when that message is non-empty and 'Unknown error' otherwise.
C2_ErrorRejects ==
    [][\A h \in {k \in Sockets : readyState[k] = "OPEN"}, f \in Frames :
         (Matches(f) /\ f.kind = "error" /\ SocketMessage(h, f)) =>
            C2_Step(f, IF f.message = "" THEN "Unknown error" ELSE f.message)]_vars

\* C2 witness: a call was rejected with a ToolExecutionError while another
\* request is still pending on the open connection
C2_Witness ==
    \E c \in Calls : /\ calls[c].outcome.type = "TOOL_EXECUTION"
                     /\ isConnected(Cur)
                     /\ \E i \in Ids : pendingRequests[i] \notin {0, c}

\* the reconnect cycle of C3: the handle held is torn down and a new
\* connection attempt is under way
ReconnectCycle ==
    /\ ws # 0
    /\ ~handlers'[ws]
    /\ readyState'[ws] \notin {"CONNECTING", "OPEN"}
    /\ ws' \notin {0, ws}
    /\ readyState[ws'] = "NONE"
    /\ readyState'[ws'] = "CONNECTING"
    /\ connPromise'[ws'] = "pending"

\* C3: when the timer of a transmitted request fires and, since the
\* request was sent, no response with its id has arrived and the connection
\* it was sent on has not been torn down, the call rejects with a
\* TimeoutError, no entry is left under its id, and the client tears down
\* the handle it holds and starts a new connection attempt.
C3_TimeoutRejectsAndReconnects ==
    [][\A c \in Calls :
         (ReqTimerFires(c) /\ calls[c].sentOn = ws /\ ~respSeen[c]) =>
            /\ calls'[c].outcome = McpUnityError("TIMEOUT", "Request timed out", "undefined")
            /\ pendingRequests'[calls[c].reqId] = 0
            /\ ReconnectCycle]_vars

\* C3 witness: a transmitted request was rejected with a TimeoutError and
\* the client holds a new handle that is CONNECTING
C3_Witness ==
    \E c \in Calls : /\ calls[c].outcome.type = "TIMEOUT"
                     /\ calls[c].sentOn \notin {0, ws}
                     /\ ws # 0
                     /\ readyState[ws] = "CONNECTING"

\* a call that nothing can settle any more.  The promise of a connection
\* attempt is settled only by the callbacks of its socket or by its
\* connection timer; the promise of a transmitted request only through its
\* entry in the pending table or by its own timer.
Stuck(c) ==
    \/ /\ calls[c].pc = "awaitConnect"
       /\ connPromise[calls[c].att] = "pending"
       /\ ~handlers[calls[c].att]
       /\ ~Armed(timerQ, ConnTimer(calls[c].att))
    \/ /\ calls[c].pc = "sent"
       /\ pendingRequests[calls[c].reqId] # c
       /\ ~Armed(timerQ, ReqTimer(c))

\* C4: every sendRequest call eventually settles, so no sendRequest call is
\* ever in a state from which it cannot settle.
C4_NoCallStuck ==
    \A c \in Calls : calls[c].kind = "send" => ~Stuck(c)

\* sendRequest started a connection attempt for call c and suspended
AttemptStarted(c) ==
    /\ calls'[c].pc = "awaitConnect"
    /\ calls'[c].wroteTo = ""
    /\ ws' \notin {0, ws}
    /\ readyState[ws'] = "NONE"
    /\ readyState'[ws'] = "CONNECTING"
    /\ calls'[c].att = ws'
    /\ \A i \in Ids : pendingRequests'[i] = 0

\* C5: a request frame is only ever written to an OPEN socket; sendRequest
\* called while the client is not connected starts a connection attempt
\* first; when that attempt fails, or the client is not connected when it
\* returns, the call rejects with a ConnectionError, writes no frame and
\* registers no entry.
C5_NoSendUnlessOpen ==
    [][/\ \A c \in Calls : calls'[c].wroteTo \in {"", "OPEN"}
       /\ \A c \in Calls, id \in {0} \cup CallerIds, t \in BOOLEAN :
            (SendRequest(c, id, t) /\ ~(ws # 0 /\ readyState[IF ws = 0 THEN 1 ELSE ws] = "OPEN"))
               => AttemptStarted(c)
       /\ \A c \in Calls, t \in BOOLEAN :
            (/\ SendResume(c, t)
             /\ \/ connPromise[calls[c].att] \in {"failed", "timeout"}
                \/ ws = 0
                \/ readyState[IF ws = 0 THEN 1 ELSE ws] # "OPEN")
               => /\ calls'[c].outcome.st = "rejected"
                  /\ calls'[c].outcome.type = "CONNECTION"
                  /\ calls'[c].wroteTo = ""
                  /\ calls'[c].sentOn = 0
                  /\ pendingRequests' = pendingRequests
                  /\ timerQ' = timerQ]_vars

\* C5 witness: a sendRequest call whose connection attempt failed was
\* rejected with a ConnectionError without writing a frame
C5_Witness ==
    \E c \in Calls : /\ calls[c].kind = "send"
                     /\ calls[c].outcome.type = "CONNECTION"
                     /\ calls[c].outcome.msg \in {"Connection failed", "Connection timeout"}
                     /\ calls[c].wroteTo = ""

ConnectionClosed == McpUnityError("CONNECTION", "Connection closed", "undefined")

\* C6: a stop() step rejects the owner of every entry of the pending table
\* with a ConnectionError and cancels its timer, empties the table and
\* leaves the client without handle (isConnected false), the socket it held
\* no longer CONNECTING or OPEN.
C6_StopDrains ==
    [][Stop =>
         /\ \A c \in Owners(Cur) :
               /\ calls'[c].outcome = ConnectionClosed
               /\ ~Armed(timerQ', ReqTimer(c))
         /\ \A i \in Ids : pendingRequests'[i] = 0
         /\ ws' = 0
         /\ ws # 0 => readyState'[ws] \notin {"CONNECTING", "OPEN"}]_vars

\* C6 witness: the client holds no handle and two requests that were
\* pending together have both been rejected with 'Connection closed'
C6_Witness ==
    /\ ws = 0
    /\ \E c, d \in Calls : /\ c # d
                           /\ calls[c].outcome = ConnectionClosed
                           /\ calls[d].outcome = ConnectionClosed
                           /\ calls[c].sentOn = calls[d].sentOn

\* C7: a start() call is never rejected; when it resumes after its
\* connection attempt it resolves, and after a failed attempt the client
\* holds no handle; a sendRequest made while the client holds no handle
\* starts a new connection attempt.
C7_StartNeverRejects ==
    [][/\ \A c \in Calls :
            calls'[c].kind = "start" => calls'[c].outcome.st # "rejected"
       /\ \A c \in Calls :
            StartResume(c) =>
               /\ calls'[c].outcome = Resolved("undefined")
               /\ connPromise[calls[c].att] # "resolved" => ws' = 0
       /\ \A c \in Calls, id \in {0} \cup CallerIds, t \in BOOLEAN :
            (SendRequest(c, id, t) /\ ws = 0) => AttemptStarted(c)]_vars

\* C7 witness: start() returned normally after its attempt (socket 1)
\* failed, and a later sendRequest is waiting for a new attempt (socket 2)
C7_Witness ==
    /\ calls[1].kind = "start"
    /\ calls[1].outcome.st = "resolved"
    /\ connPromise[1] \in {"failed", "timeout"}
    /\ \E d \in Calls : /\ calls[d].kind = "send"
                        /\ calls[d].pc = "awaitConnect"
                        /\ calls[d].att = 2
                        /\ ws = 2

\* C8: a response frame whose id has no entry in the pending table (an
\* id nobody used, a missing id, the id of a request already completed)
\* changes nothing: the table, the timers, the handle, the sockets and all
\* calls are as before.
C8_UnmatchedResponseInert ==
    [][(\E h \in {k \in Sockets : readyState[k] = "OPEN"}, f \in Frames :
          f.kind # "garbage" /\ ~Matches(f) /\ SocketMessage(h, f)) =>
            UNCHANGED progVars]_vars

\* C8 witness: a response that matched no entry has just been delivered
\* on the open connection while a request was pending
C8_Witness ==
    /\ dropped
    /\ isConnected(Cur)
    /\ Owners(Cur) # {}

\* the handle held before the step is no longer the client's after it
Teardown == ws # 0 /\ (ws' # ws \/ ~handlers'[ws])

\* C9: whenever the client holds no handle the pending table is empty; and
\* a step that tears the handle down rejects the owner of every entry with
\* ConnectionError 'Connection closed' and cancels its timer.  (The entry
\* under the id of a request whose timer fires in that step is removed by
\* the timeout itself, before the teardown.)
C9_TeardownDrains ==
    [][/\ ws' = 0 => \A i \in Ids : pendingRequests'[i] = 0
       /\ Teardown =>
            \A i \in Ids :
               pendingRequests[i] # 0 =>
                  \/ \E d \in Calls : ReqTimerFires(d) /\ calls[d].reqId = i
                  \/ /\ calls'[pendingRequests[i]].outcome = ConnectionClosed
                     /\ ~Armed(timerQ', ReqTimer(pendingRequests[i]))
                     /\ pendingRequests'[i] = 0]_vars

\* C9 witness: a pending request was rejected with 'Connection closed' by
\* a teardown that started a new connection attempt
C9_Witness ==
    \E c \in Calls : /\ calls[c].outcome = ConnectionClosed
                     /\ ws # 0
                     /\ calls[c].sentOn # ws
                     /\ readyState[ws] = "CONNECTING"

\* C10: at most one socket created by the client is CONNECTING or OPEN, and
\* it is the handle the client holds; a step that creates a socket leaves
\* the handle held before without callbacks and neither CONNECTING nor OPEN.
C10_SingleLiveTransport ==
    [][/\ Cardinality({h \in Sockets : readyState'[h] \in {"CONNECTING", "OPEN"}}) <= 1
       /\ \A h \in Sockets : readyState'[h] \in {"CONNECTING", "OPEN"} => h = ws'
       /\ (\E h \in Sockets : readyState[h] = "NONE" /\ readyState'[h] # "NONE") =>
             (ws # 0 => /\ readyState'[ws] \notin {"CONNECTING", "OPEN"}
                        /\ ~handlers'[ws])]_vars

\* C10 witness: a start and a sendRequest both wait for a connection
\* attempt; the socket of the first attempt was torn down by the second
C10_Witness ==
    \E c, d \in Calls : /\ calls[c].kind = "start"
                        /\ calls[d].kind = "send"
                        /\ calls[c].pc = "awaitConnect"
                        /\ calls[d].pc = "awaitConnect"
                        /\ calls[c].att # calls[d].att
                        /\ readyState[1] = "CLOSED"
                        /\ readyState[2] = "CONNECTING"

\* the calls whose request frame was transmitted and that are not settled
Outstanding == {c \in Calls : calls[c].pc = "sent"}

\* C11: the ids of the outstanding requests are pairwise distinct, every
\* entry of the pending table belongs to an outstanding request registered
\* under that id, and there are as many entries as outstanding requests (no
\* registration replaced or removed the entry of another one).
C11_EntriesMatchOutstanding ==
    /\ \A c, d \in Outstanding : c # d => calls[c].reqId # calls[d].reqId
    /\ \A i \in Ids : pendingRequests[i] # 0 =>
          /\ pendingRequests[i] \in Outstanding
          /\ calls[pendingRequests[i]].reqId = i
    /\ Cardinality(Outstanding) = Cardinality({i \in Ids : pendingRequests[i] # 0})

\* the terminal outcomes of a transmitted request of call c in a step
ByResponse(c) ==
    \E h \in {k \in Sockets : readyState[k] = "OPEN"}, f \in Frames :
       /\ f.kind # "garbage" /\ f.id = calls[c].reqId /\ SocketMessage(h, f)
       /\ calls'[c].outcome =
             IF f.kind = "error"
             THEN McpUnityError("TOOL_EXECUTION", ErrorMessage(f.message), f.details)
             ELSE Resolved(f.result)
ByDeadline(c) ==
    /\ ReqTimerFires(c)
    /\ calls'[c].outcome = McpUnityError("TIMEOUT", "Request timed out", "undefined")
ByTeardown(c) ==
    /\ Teardown
    /\ calls'[c].outcome = ConnectionClosed

\* C12: a settled call keeps its outcome for ever; a transmitted request
\* whose entry leaves the pending table is settled in that very step; and
\* a transmitted request is settled only by a response with its id, by its
\* own timer or by a teardown, its entry and timer being gone afterwards.
C12_OneTerminalOutcome ==
    [][\A c \in Calls :
         /\ calls[c].outcome.st # "pending" => calls'[c].outcome = calls[c].outcome
         /\ (calls[c].pc = "sent" /\ pendingRequests'[calls[c].reqId] # c) =>
               calls'[c].outcome.st # "pending"
         /\ (calls[c].pc = "sent" /\ calls'[c].outcome.st # "pending") =>
               /\ ByResponse(c) \/ ByDeadline(c) \/ ByTeardown(c)
               /\ pendingRequests'[calls[c].reqId] # c
               /\ ~Armed(timerQ', ReqTimer(c))]_vars

\* a string that is a decimal integer literal, and the integer it denotes
IsInteger(s) == s # <<>> /\ \A i \in 1..Len(s) : IsDigit(s[i])
RECURSIVE IntegerValue(_)
IntegerValue(s) ==
    IF s = <<>> THEN 0
    ELSE 10 * IntegerValue(SubSeq(s, 1, Len(s) - 1)) + DigitValue[s[Len(s)]]

\* C13: when the override is set to an integer, the constructor resolves
\* the port to that integer on every platform and whatever the platform
\* store holds or throws; and once resolved the port is never changed by a
\* later step of the client.
C13_OverrideWins ==
    [][/\ (Construct /\ env.UNITY_PORT.set /\ IsInteger(env.UNITY_PORT.s)) =>
             port' = Num(IntegerValue(env.UNITY_PORT.s))
       /\ port # Undefined => port' = port]_vars

\* C13 witness: the client was constructed with override "9999" while the
\* platform store held 7777; a request has since timed out and the client
\* has reconnected, the port being 9999
C13_Witness ==
    /\ env.UNITY_PORT = Str(<<"9", "9", "9", "9">>)
    /\ env.launchctl = Out(<<"7", "7", "7", "7", "\n">>)
    /\ port = Num(9999)
    /\ ws # 0
    /\ \E c \in Calls : calls[c].outcome.type = "TIMEOUT"

\* a command that ran and printed nothing but white space
Blank(o) == ~o.throws /\ \A i \in 1..Len(o.out) : IsSpace(o.out[i])

\* the platform store of environment e yields no value
StoreYieldsNothing(e) ==
    CASE e.platform = "win32" -> e.registry = <<>>
      [] e.platform = "darwin" -> Blank(e.launchctl) /\ Blank(e.shell)
      [] OTHER -> Blank(e.printenv)

\* a command run by the probe of environment e fails
ProbeRaises(e) ==
    CASE e.platform = "win32" -> FALSE
      [] e.platform = "darwin" -> \/ e.launchctl.throws
                                  \/ Blank(e.launchctl) /\ e.shell.throws
      [] OTHER -> e.printenv.throws

\* C14: with no override set, when the platform store yields no value or
\* the probe raises an error, the constructor completes with port 8090, on
\* every platform.
C14_DefaultWhenNothingFound ==
    [][(Construct /\ ~env.UNITY_PORT.set
          /\ (StoreYieldsNothing(env) \/ ProbeRaises(env))) =>
            port' = Num(8090)]_vars

\* C14 witness: a client constructed on a Unix platform with no override,
\* printenv having failed, has port 8090
C14_Witness ==
    /\ ~env.UNITY_PORT.set
    /\ env.platform = "linux"
    /\ env.printenv.throws
    /\ port = Num(8090)

\* C15: when the override is set to a value that does not parse as an
\* integer, the constructor resolves the port as if no override were set:
\* to the platform value, else to the default.
C15_UnparseableOverrideSkipped ==
    [][(Construct /\ env.UNITY_PORT.set /\ parseInt(env.UNITY_PORT.s) = NaN) =>
          port' = determinePort([env EXCEPT !.UNITY_PORT = Unset])]_vars

\* the attempt on socket h has ended in Disconnected: its handle is torn
\* down, its timer is not armed and the client holds no handle
AttemptTornDown(h) ==
    /\ ws' = 0
    /\ ~handlers'[h]
    /\ readyState'[h] \notin {"CONNECTING", "OPEN"}
    /\ ~Armed(timerQ', ConnTimer(h))

\* C16: for a socket that is CONNECTING, a transport error rejects the
\* promise of its connect() with a ConnectionError ('Connection failed'),
\* and its connection timer firing rejects it with a ConnectionError
\* ('Connection timeout'); in both cases the handle is torn down and the
\* client holds no handle, and a sendRequest that awaited the attempt
\* rejects with that error.  The open acknowledgement resolves the
\* promise, the client is connected and the timer of the attempt cancelled.
C16_ConnectingOutcomes ==
    [][/\ \A h \in {k \in Sockets : readyState[k] = "CONNECTING"} :
            /\ connPromise[h] = "pending"
            /\ SocketError(h) => connPromise'[h] = "failed" /\ AttemptTornDown(h)
            /\ ConnTimerFires(h) => connPromise'[h] = "timeout" /\ AttemptTornDown(h)
            /\ SocketOpen(h) => /\ connPromise'[h] = "resolved"
                                /\ ws' = h
                                /\ readyState'[h] = "OPEN"
                                /\ ~Armed(timerQ', ConnTimer(h))
       /\ \A c \in Calls, t \in BOOLEAN :
            (SendResume(c, t) /\ connPromise[calls[c].att] \in {"failed", "timeout"}) =>
               calls'[c].outcome =
                  McpUnityError("CONNECTION",
                                IF connPromise[calls[c].att] = "timeout"
                                THEN "Connection timeout" ELSE "Connection failed",
                                "undefined")]_vars

\* C16 witness: the connection timer of an attempt fired while its socket
\* was CONNECTING; the client holds no handle and the sendRequest that
\* started the attempt was rejected with 'Connection timeout'
C16_Witness ==
    \E h \in Sockets, c \in Calls :
       /\ connPromise[h] = "timeout"
       /\ readyState[h] = "CLOSED"
       /\ ws = 0
       /\ calls[c].kind = "send"
       /\ calls[c].outcome = McpUnityError("CONNECTION", "Connection timeout", "undefined")

\* call c writes its request frame in this step and the write throws
SendFails(c) ==
    \/ \E id \in {0} \cup CallerIds : SendRequest(c, id, TRUE)
    \/ /\ calls[c].pc = "awaitConnect"
       /\ connPromise[calls[c].att] = "resolved"
       /\ isConnected(Cur)
       /\ SendResume(c, TRUE)

\* C17: a step in which the write of a request frame throws rejects the
\* call with a ConnectionError ('Send failed'), leaves no timer and no
\* entry of the call, starts no reconnect, and leaves the handle, the
\* sockets, the pending table, the timers and every other call as they
\* were.
C17_SendFailureIsLocal ==
    [][\A c \in Calls :
         SendFails(c) =>
            /\ calls'[c].outcome = McpUnityError("CONNECTION", "Send failed", "undefined")
            /\ calls'[c].wroteTo = ""
            /\ ~Armed(timerQ', ReqTimer(c))
            /\ \A i \in Ids : pendingRequests'[i] # c
            /\ pendingRequests' = pendingRequests
            /\ timerQ' = timerQ
            /\ ws' = ws /\ readyState' = readyState /\ handlers' = handlers
            /\ connPromise' = connPromise
            /\ \A d \in Calls \ {c} : calls'[d] = calls[d]]_vars

\* the number of armed request timers of call c
ArmedCount(c) == Cardinality({k \in 1..Len(timerQ) : timerQ[k] = ReqTimer(c)})

\* C18: the owner of every entry of the pending table has exactly one
\* armed request timer, and every armed request timer belongs to the owner
\* of an entry.
C18_TimersMatchEntries ==
    /\ \A i \in Ids : pendingRequests[i] # 0 => ArmedCount(pendingRequests[i]) = 1
    /\ \A c \in Calls : ArmedCount(c) > 0 => \E i \in Ids : pendingRequests[i] = c

\* the ids used by the sendRequest calls made so far are pairwise distinct
DistinctIds ==
    \A c, d \in Calls :
       (c # d /\ calls[c].kind = "send" /\ calls[d].kind = "send") =>
          calls[c].reqId # calls[d].reqId

\* an outstanding request keeps its entry and its one timer in the step
StaysPending(c) ==
    /\ calls'[c] = calls[c]
    /\ pendingRequests'[calls[c].reqId] = c
    /\ Cardinality({k \in 1..Len(timerQ') : timerQ'[k] = ReqTimer(c)}) = 1

\* C19: with pairwise distinct ids, every outstanding request has its
\* entry under its own id; a response delivered on the open connection
\* completes the outstanding request that carries its id, with the
\* response's payload, and leaves every other outstanding request as it
\* was (unsettled, its entry in the table, its timer armed); a response
\* that carries the id of no outstanding request leaves all of them so.
C19_MatchedById ==
    [][DistinctIds =>
         /\ \A c \in Outstanding :
               pendingRequests[calls[c].reqId] = c /\ ArmedCount(c) = 1
         /\ \A h \in {k \in Sockets : readyState[k] = "OPEN"}, f \in Frames :
               (Matches(f) /\ SocketMessage(h, f)) =>
                  \A c \in Outstanding :
                     IF calls[c].reqId = f.id
                     THEN /\ calls'[c].outcome =
                                IF f.kind = "error"
                                THEN McpUnityError("TOOL_EXECUTION",
                                                   ErrorMessage(f.message), f.details)
                                ELSE Resolved(f.result)
                          /\ pendingRequests'[f.id] = 0
                          /\ ~Armed(timerQ', ReqTimer(c))
                     ELSE StaysPending(c)
         /\ (\E h \in {k \in Sockets : readyState[k] = "OPEN"}, f \in Frames :
                f.kind # "garbage" /\ ~Matches(f) /\ SocketMessage(h, f)) =>
               \A c \in Outstanding : StaysPending(c)]_vars

\* C19 witness: two requests were outstanding together on the open
\* connection; the response to the later one has arrived and resolved it
\* while the earlier one is still pending
C19_Witness ==
    \E c, d \in Calls :
       /\ c < d
       /\ calls[c].pc = "sent"
       /\ calls[d].outcome = Resolved("pong")
       /\ calls[c].sentOn = ws
       /\ calls[d].sentOn = ws
       /\ isConnected(Cur)
       /\ pendingRequests[calls[c].reqId] = c
       /\ calls[c].reqId # calls[d].reqId

\* C20: no socket other than the handle held has callbacks registered, and
\* an event delivered by a socket the client no longer holds changes
\* nothing: the handle, the sockets, the pending table, the timers, the
\* connection promises and all calls are as before.
C20_LateEventsInert ==
    [][/\ \A h \in Sockets : h # ws' => ~handlers'[h]
       /\ (\E h \in Sockets : LateEvent(h)) =>
             UNCHANGED progVars]_vars

\* C20 witness: a socket torn down during its handshake has just delivered
\* an event while the client is connected through a newer socket with a
\* request pending
C20_Witness ==
    /\ late
    /\ isConnected(Cur)
    /\ Owners(Cur) # {}
    /\ \E h \in Sockets : h # ws /\ readyState[h] = "CLOSED" /\ connPromise[h] = "pending"

\* C21: a step that delivers an unparseable frame changes nothing: the
\* connection stays open, the pending table, the timers and all calls are
\* as before.
C21_UnparseableFrameDropped ==
    [][(\E h \in {k \in Sockets : readyState[k] = "OPEN"}, f \in Frames :
          f.kind = "garbage" /\ SocketMessage(h, f)) =>
            /\ isConnected(Cur)
            /\ UNCHANGED progVars]_vars

\* C21 witness: an unparseable frame has just been delivered on the open
\* connection while a request was pending; the request is still pending
C21_Witness ==
    /\ unparsed
    /\ isConnected(Cur)
    /\ \E c \in Calls : calls[c].pc = "sent" /\ pendingRequests[calls[c].reqId] = c
                        /\ Armed(timerQ, ReqTimer(c))

\* C22: on win32, with no override set and UNITY_PORT present under
\* HKCU\Environment with an integer value, the constructor resolves the
\* port to that value.
C22_RegistryValueUsed ==
    [][(Construct /\ ~env.UNITY_PORT.set /\ env.platform = "win32"
          /\ IsInteger(env.registry)) =>
            port' = Num(IntegerValue(env.registry))]_vars

\* C23: when the connection timer of an attempt fires while the client
\* holds the CONNECTING handle of a newer attempt, that handle stays held,
\* CONNECTING and with its callbacks, the promise of the newer attempt is
\* not settled, and the pending table and the calls are as before.
C23_TimerActsOnOwnHandle ==
    [][\A h \in Sockets :
         (ConnTimerFires(h) /\ ws \notin {0, h}
            /\ readyState[IF ws = 0 THEN h ELSE ws] = "CONNECTING") =>
            /\ ws' = ws
            /\ readyState'[ws] = "CONNECTING"
            /\ handlers'[ws]
            /\ connPromise'[ws] = connPromise[ws]
            /\ pendingRequests' = pendingRequests
            /\ calls' = calls]_vars

\* C24: a request timer that fires, and so starts a reconnect cycle,
\* belongs to a request that is still pending: transmitted, unsettled and
\* with its own entry in the pending table.
C24_ReconnectOnlyIfPending ==
    [][\A c \in Calls :
         ReqTimerFires(c) =>
            /\ calls[c].pc = "sent"
            /\ pendingRequests[calls[c].reqId] = c]_vars

=============================================================================
